---- MODULE Spec2Model ----
(***************************************************************************)
(* The Workiz multi-account fetcher (src/workiz_fetcher.py) as a state     *)
(* machine: main() iterating over the accounts, the eleven paginations of  *)
(* an account (_page_through), the retry loop of a page fetch (_get), and  *)
(* the reconciliation, retention, tally and summary that follow.           *)
(*                                                                         *)
(* Python values are modelled as tagged records: None, int and str; a str  *)
(* is a sequence of one-character strings, so that strip, replace, endswith*)
(* and slicing are computed as the code computes them.  A row (a dict from *)
(* the API) is a function from field names to values.                      *)
(***************************************************************************)
EXTENDS Integers, Sequences, FiniteSets, TLC

VARIABLES
    accounts,            \* the configured account list (read-only)
    env,                 \* what the remote service may still answer (model bound)
    pc,                  \* "fetch" (awaiting an HTTP answer) | "done" |
                         \* "raised" (main() ended by an unhandled exception)
    ai,                  \* index of the account being processed
    si,                  \* index into JOB_STATUSES of the status being pulled
    phase,               \* "created" | "wide" | "leads": the pull under way
    offset, out, seen,   \* locals of _page_through
    tries,               \* local of _get
    raw_created, raw_wide,
    dedup_map, kept_rows, status_counts,
    all_jobs, all_leads, per_account_summary,
    exports,             \* the tables written by the export step
    uuid_next,           \* number of identifiers uuid4() has handed out
    reqs,                \* history: requests of the pull under way
    last_pull,           \* history: the pull that ended last
    pulls,               \* history: the pulls started, in order
    stats,               \* history: per account, how its pulls ended (partial:
                         \* a job pull failed after it had fetched records)
    recon,               \* history: per account, what reconciliation read and made
    sample,              \* pure-function check: the input drawn
    result               \* pure-function check: what the function returned

vars == <<accounts, env, pc, ai, si, phase, offset, out, seen, tries,
          raw_created, raw_wide, dedup_map, kept_rows, status_counts, all_jobs,
          all_leads, per_account_summary, exports, uuid_next, reqs, last_pull,
          pulls, stats, recon, sample, result>>

-----------------------------------------------------------------------------
(* Program constants                                                       *)

PAGE_SIZE == 100
MAX_RETRIES == 4
THIS_YEAR == 2025      \* NOW.year: the run is made in 2025

(* Values *)
PyNone == [t |-> "none"]
PyInt(n) == [t |-> "int", v |-> n]
PyStr(s) == [t |-> "str", v |-> s]

\* bool(x) of Python for the values modelled
Truthy(x) ==
    CASE x.t = "none" -> FALSE
      [] x.t = "int" -> x.v # 0
      [] x.t = "str" -> x.v # <<>>
      [] OTHER -> TRUE

\* a or b
Or(a, b) == IF Truthy(a) THEN a ELSE b

isinstance_str(x) == x.t = "str"

\* row.get(k)
Get(row, k) == IF k \in DOMAIN row THEN row[k] ELSE PyNone

\* row[k] = v
SetItem(row, k, v) ==
    [x \in DOMAIN row \cup {k} |-> IF x = k THEN v ELSE row[x]]

Range(s) == {s[i] : i \in DOMAIN s}

Digits == <<"0", "1", "2", "3", "4", "5", "6", "7", "8", "9">>

RECURSIVE IntToStr(_)
IntToStr(n) ==
    IF n < 10 THEN <<Digits[n + 1]>>
    ELSE IntToStr(n \div 10) \o <<Digits[(n % 10) + 1]>>

\* str(x)
str(x) ==
    CASE x.t = "none" -> <<"N", "o", "n", "e">>
      [] x.t = "int" -> IntToStr(x.v)
      [] x.t = "str" -> x.v
      [] x.t = "uuid" -> <<"u", "u", "i", "d", "4", "-">> \o IntToStr(x.v)

Whitespace == {" ", "\t", "\n"}

RECURSIVE lstrip(_)
lstrip(s) ==
    IF s # <<>> /\ Head(s) \in Whitespace THEN lstrip(Tail(s)) ELSE s

RECURSIVE rstrip(_)
rstrip(s) ==
    IF s # <<>> /\ s[Len(s)] \in Whitespace
    THEN rstrip(SubSeq(s, 1, Len(s) - 1)) ELSE s

\* s.strip()
strip(s) == rstrip(lstrip(s))

\* s.replace(c, w) for a one-character c
RECURSIVE replace(_, _, _)
replace(s, c, w) ==
    IF s = <<>> THEN <<>>
    ELSE (IF Head(s) = c THEN w ELSE <<Head(s)>>) \o replace(Tail(s), c, w)

endswith(s, c) == s # <<>> /\ s[Len(s)] = c
Contains(s, c) == \E i \in DOMAIN s : s[i] = c

-----------------------------------------------------------------------------
(* Date and retention logic                                                *)

IsDigit(c) == c \in Range(Digits)
DigitVal(c) == CHOOSE d \in 0..9 : Digits[d + 1] = c

RECURSIVE Num(_)
Num(s) == IF s = <<>> THEN 0 ELSE 10 * Num(SubSeq(s, 1, Len(s) - 1)) + DigitVal(s[Len(s)])

AllDigits(s) == \A i \in DOMAIN s : IsDigit(s[i])

DaysInMonth(y, m) ==
    IF m = 2 THEN (IF (y % 4 = 0 /\ y % 100 # 0) \/ y % 400 = 0 THEN 29 ELSE 28)
    ELSE IF m \in {4, 6, 9, 11} THEN 30 ELSE 31

\* "YYYY-MM-DD"
IsoDate(s) ==
    /\ Len(s) = 10
    /\ s[5] = "-" /\ s[8] = "-"
    /\ AllDigits(SubSeq(s, 1, 4)) /\ AllDigits(SubSeq(s, 6, 7)) /\ AllDigits(SubSeq(s, 9, 10))
    /\ Num(SubSeq(s, 1, 4)) >= 1
    /\ Num(SubSeq(s, 6, 7)) \in 1..12
    /\ Num(SubSeq(s, 9, 10)) \in 1..DaysInMonth(Num(SubSeq(s, 1, 4)), Num(SubSeq(s, 6, 7)))

\* "HH", "HH:MM" or "HH:MM:SS"
IsoClock(s) ==
    /\ Len(s) \in {2, 5, 8}
    /\ \A i \in DOMAIN s : IF i \in {3, 6} THEN s[i] = ":" ELSE IsDigit(s[i])
    /\ Num(SubSeq(s, 1, 2)) <= 23
    /\ Len(s) >= 5 => Num(SubSeq(s, 4, 5)) <= 59
    /\ Len(s) >= 8 => Num(SubSeq(s, 7, 8)) <= 59

\* "+HH:MM" or "-HH:MM"
IsoOffset(s) ==
    /\ Len(s) = 6
    /\ s[1] \in {"+", "-"}
    /\ IsoClock(SubSeq(s, 2, 6))

\* the time part after the separator: a clock, then an optional UTC offset
IsoTime(s) ==
    \/ IsoClock(s)
    \/ /\ Len(s) > 6
       /\ IsoClock(SubSeq(s, 1, Len(s) - 6))
       /\ IsoOffset(SubSeq(s, Len(s) - 5, Len(s)))

HasOffset(s) == Len(s) > 16 /\ IsoOffset(SubSeq(s, Len(s) - 5, Len(s)))

\* datetime.fromisoformat(v): the date, or the date, any one separator
\* character and a time; anything else raises ValueError
fromisoformat(v) ==
    IF /\ Len(v) >= 10
       /\ IsoDate(SubSeq(v, 1, 10))
       /\ Len(v) > 10 => (Len(v) >= 13 /\ IsoTime(SubSeq(v, 12, Len(v))))
    THEN [t |-> "datetime",
          year |-> Num(SubSeq(v, 1, 4)),
          month |-> Num(SubSeq(v, 6, 7)),
          day |-> Num(SubSeq(v, 9, 10)),
          tzinfo |-> HasOffset(v)]
    ELSE [t |-> "ValueError"]

parse_dt(val) ==
    IF ~Truthy(val) \/ ~isinstance_str(val) THEN PyNone
    ELSE LET v0 == strip(val.v)
             v1 == IF endswith(v0, "Z")
                   THEN replace(v0, "Z", <<"+", "0", "0", ":", "0", "0">>)
                   ELSE v0
             v2 == IF Contains(v1, " ") /\ ~Contains(v1, "T")
                   THEN replace(v1, " ", <<"T">>)
                   ELSE v1
             dt == fromisoformat(v2)
         IN  IF dt.t = "ValueError" THEN PyNone
             ELSE [dt EXCEPT !.tzinfo = TRUE]

in_this_year(dt) == Truthy(dt) /\ dt.year = THIS_YEAR

CREATED_KEYS == <<"created_at", "createdAt", "time_created", "jobDateTime",
                  "date_created", "CreatedDate">>
SCHEDULED_KEYS == <<"scheduled_start", "scheduledAt", "start_time", "ScheduledStart">>

RECURSIVE get_field_in_year(_, _)
get_field_in_year(row, keys) ==
    IF keys = <<>> THEN PyNone
    ELSE IF Head(keys) \in DOMAIN row /\ in_this_year(parse_dt(row[Head(keys)]))
         THEN row[Head(keys)]
         ELSE get_field_in_year(row, Tail(keys))

RECURSIVE get_field(_, _)
get_field(row, keys) ==
    IF keys = <<>> THEN PyNone
    ELSE IF Head(keys) \in DOMAIN row /\ Truthy(row[Head(keys)])
         THEN row[Head(keys)]
         ELSE get_field(row, Tail(keys))

keep_created_this_year(row) ==
    LET created_dt == parse_dt(get_field(row, CREATED_KEYS))
    IN  in_this_year(created_dt)

keep_created_or_scheduled_this_year(row) ==
    LET created_dt == parse_dt(get_field(row, CREATED_KEYS))
        scheduled_dt == parse_dt(get_field(row, SCHEDULED_KEYS))
    IN  in_this_year(created_dt) \/ in_this_year(scheduled_dt)

-----------------------------------------------------------------------------
(* Identity, redaction, tagging                                            *)

\* the one character U+2026 of the redacted token
Ellipsis == "..."

red_token(tok) ==
    IF Len(tok) > 10
    THEN SubSeq(tok, 1, 4) \o <<Ellipsis>> \o SubSeq(tok, Len(tok) - 3, Len(tok))
    ELSE tok

\* row.get("uuid") or row.get("UUID") or row.get("id") or row.get("Id")
IdentityField(row) ==
    Or(Get(row, "uuid"), Or(Get(row, "UUID"), Or(Get(row, "id"), Get(row, "Id"))))

\* uuid4() is evaluated only when the four fields are all falsy; n is the
\* number of identifiers handed out so far, so every one is fresh
get_uuid_fixed(row, n) == str(Or(IdentityField(row), [t |-> "uuid", v |-> 0]))

get_uuid(row, n) == str(Or(IdentityField(row), [t |-> "uuid", v |-> n]))

add_account(rows, account_name, kind) ==
    [i \in DOMAIN rows |->
        SetItem(SetItem(rows[i], "Account", PyStr(account_name)), "_kind", PyStr(kind))]

-----------------------------------------------------------------------------
(* Configuration                                                           *)

JOB_STATUSES ==
    << <<"S", "u", "b", "m", "i", "t", "t", "e", "d">>,
       <<"I", "n", " ", "P", "r", "o", "g", "r", "e", "s", "s">>,
       <<"D", "o", "n", "e">>,
       <<"D", "o", "n", "e", " ", "P", "e", "n", "d", "i", "n", "g", " ", "A", "p", "p", "r", "o", "v", "a", "l">>,
       <<"C", "a", "n", "c", "e", "l", "e", "d">> >>

THIS_YEAR_START == IntToStr(THIS_YEAR) \o <<"-", "0", "1", "-", "0", "1">>
WIDE_START == IntToStr(THIS_YEAR - 1) \o <<"-", "0", "1", "-", "0", "1">>

ApiRoot == <<"h", "t", "t", "p", "s", ":", "/", "/", "a", "p", "i", ".", "w", "o", "r", "k", "i", "z", ".", "c", "o", "m", "/", "a", "p", "i", "/", "v", "1", "/">>

-----------------------------------------------------------------------------
(* HTTP helpers                                                            *)

isinstance_list(x) == x.t = "list"
isinstance_dict(x) == x.t = "dict"

\* a response body: what r.json() gives, or r.text when the body is no JSON
JsonList(page) == [t |-> "list", v |-> page]
JsonDict(d) == [t |-> "dict", v |-> d]
JsonTrue == [t |-> "bool", v |-> TRUE]

_normalize_payload(obj) ==
    IF obj.t = "none" THEN <<>>
    ELSE IF isinstance_list(obj) THEN obj.v
    ELSE IF isinstance_dict(obj) THEN
        IF isinstance_list(Get(obj.v, "data")) THEN obj.v["data"].v
        ELSE IF isinstance_list(Get(obj.v, "aaData")) THEN obj.v["aaData"].v
        ELSE IF Get(obj.v, "error") = JsonTrue THEN <<>>
        ELSE <<>>
    ELSE <<>>

\* the body _get returns when every attempt failed
ExhaustedBody == JsonDict([error |-> JsonTrue,
                           msg |-> PyStr(<<"n", "e", "t", "w", "o", "r", "k", " ", "e", "r", "r", "o", "r", " ", "a", "f", "t", "e", "r", " ", "r", "e", "t", "r", "i", "e", "s">>)])

\* the statuses _get retries on
RETRY_STATUSES == {429, 500, 502, 503, 504}

\* str(row): the dict literal, the fields in the order FieldOrder, a field
\* name rendered as one element
FieldOrder == <<"uuid", "UUID", "id", "Id", "status", "JobStatus">>
              \o CREATED_KEYS \o SCHEDULED_KEYS
              \o <<"Account", "_kind", "_status_pull">>

repr(x) ==
    IF x.t = "str" THEN <<"'">> \o x.v \o <<"'">> ELSE str(x)

RECURSIVE ReprItems(_, _, _)
ReprItems(row, keys, first) ==
    IF keys = <<>> THEN <<>>
    ELSE IF Head(keys) \in DOMAIN row
         THEN (IF first THEN <<>> ELSE <<",", " ">>)
              \o <<"'", Head(keys), "'", ":", " ">> \o repr(row[Head(keys)])
              \o ReprItems(row, Tail(keys), FALSE)
         ELSE ReprItems(row, Tail(keys), first)

str_row(row) == <<"{">> \o ReprItems(row, FieldOrder, TRUE) \o <<"}">>

\* s[:n] and s[-n:]
SliceTo(s, n) == SubSeq(s, 1, IF Len(s) < n THEN Len(s) ELSE n)
SliceLast(s, n) == SubSeq(s, IF Len(s) < n THEN 1 ELSE Len(s) - n + 1, Len(s))

sig_first(page) ==
    Or(Get(page[1], "uuid"), Or(Get(page[1], "UUID"), Or(Get(page[1], "id"),
       PyStr(SliceTo(str_row(page[1]), 40)))))

sig_last(page) ==
    LET r == page[Len(page)]
    IN  Or(Get(r, "uuid"), Or(Get(r, "UUID"), Or(Get(r, "id"),
           PyStr(SliceLast(str_row(r), 40)))))

Signature_of_page(off, page) ==
    IntToStr(Len(page)) \o <<":">>
        \o str(sig_first(page)) \o <<":">> \o str(sig_last(page))

\* f"{offset}:{n}:{sig_first}:{sig_last}"
Signature(off, page) ==
    IntToStr(off) \o <<":">> \o IntToStr(Len(page)) \o <<":">>
        \o str(sig_first(page)) \o <<":">> \o str(sig_last(page))

-----------------------------------------------------------------------------
(* Reconciliation and tally of main()                                      *)

DedupKeys(map) == {map[i].k : i \in DOMAIN map}

\* if u not in dedup_map: dedup_map[u] = r
dedup_insert_last_wins(map, u, r) ==
    IF \E i \in DOMAIN map : map[i].k = u
    THEN [i \in DOMAIN map |-> IF map[i].k = u THEN [k |-> u, r |-> r] ELSE map[i]]
    ELSE Append(map, [k |-> u, r |-> r])

dedup_insert(map, u, r) ==
    IF \E i \in DOMAIN map : map[i].k = u THEN map
    ELSE Append(map, [k |-> u, r |-> r])

\* the body of the loop: u = get_uuid(r), then the insertion; d.n counts the
\* uuid4() calls
dedup_step(d, r) ==
    [map |-> dedup_insert(d.map, get_uuid(r, d.n), r),
     n |-> IF Truthy(IdentityField(r)) THEN d.n ELSE d.n + 1]

\* for r in rows[lo..hi], in order: the first half, then the second half from
\* where the first ended (the halves keep the evaluation shallow)
RECURSIVE dedup_loop(_, _, _, _)
dedup_loop(rows, lo, hi, d) ==
    IF lo > hi THEN d
    ELSE IF lo = hi THEN dedup_step(d, rows[lo])
    ELSE LET mid == (lo + hi) \div 2
             left == dedup_loop(rows, lo, mid, d)
         IN  IF left.n >= 0 THEN dedup_loop(rows, mid + 1, hi, left) ELSE left

dedup_input_wide_first(created, wide) == wide \o created

\* raw_created + raw_wide
dedup_input(created, wide) == created \o wide

\* lines 362-366
dedup(rows, n) == dedup_loop(rows, 1, Len(rows), [map |-> <<>>, n |-> n])

\* dedup_map.values(), in insertion order
DedupValues(map) == [i \in DOMAIN map |-> map[i].r]

keep_rows_all(map) == DedupValues(map)

keep_rows_dated(map) ==
    SelectSeq(DedupValues(map), LAMBDA r : Truthy(get_field(r, CREATED_KEYS)))

keep_rows(map) == SelectSeq(DedupValues(map), keep_created_or_scheduled_this_year)

\* (r.get("status") or r.get("JobStatus") or r.get("_status_pull") or "").strip()
tally_status(r) ==
    strip(Or(Get(r, "status"), Or(Get(r, "JobStatus"),
          Or(Get(r, "_status_pull"), PyStr(<<>>)))).v)

\* r.get("status") or r.get("JobStatus") or r.get("_status_pull") or ""
tally_value(r) ==
    Or(Get(r, "status"), Or(Get(r, "JobStatus"), Or(Get(r, "_status_pull"), PyStr(<<>>))))

\* .strip() raises AttributeError: the value is no str
tally_raises(r) == ~isinstance_str(tally_value(r))

\* the rows the loop of lines 373-379 gets through: all of them, or those
\* before the first one it raises on
tally_reach(rows) ==
    IF \E i \in DOMAIN rows : tally_raises(rows[i])
    THEN SubSeq(rows, 1, (CHOOSE i \in DOMAIN rows :
                            /\ tally_raises(rows[i])
                            /\ \A j \in 1..(i - 1) : ~tally_raises(rows[j])) - 1)
    ELSE rows

\* status_counts[st] += 1, the key added when it is new
tally_add(counts, st) ==
    IF st \in DOMAIN counts THEN [counts EXCEPT ![st] = @ + 1]
    ELSE [x \in DOMAIN counts \cup {st} |-> IF x = st THEN 1 ELSE counts[x]]

\* for r in rows[lo..hi], in order, by halves as in dedup_loop
RECURSIVE tally_loop(_, _, _, _)
tally_loop(rows, lo, hi, counts) ==
    IF lo > hi THEN counts
    ELSE IF lo = hi THEN tally_add(counts, tally_status(rows[lo]))
    ELSE LET mid == (lo + hi) \div 2
             left == tally_loop(rows, lo, mid, counts)
         IN  IF DOMAIN left # {} THEN tally_loop(rows, mid + 1, hi, left) ELSE left

\* lines 372-379
tally(rows) == tally_loop(rows, 1, Len(rows), [st \in Range(JOB_STATUSES) |-> 0])

\* status_counts.get(st, 0)
counts_get(counts, st) == IF st \in DOMAIN counts THEN counts[st] ELSE 0

Kind_job == <<"j", "o", "b">>
Kind_lead == <<"l", "e", "a", "d">>

base_url_r(acc) == ApiRoot \o red_token(acc.token)

summary_row(acc, leads_rows, counts, kept) ==
    [Account |-> acc.name,
     Endpoint |-> base_url_r(acc),
     Leads |-> Len(leads_rows),
     Jobs |-> [st \in Range(JOB_STATUSES) |-> counts_get(counts, st)],
     Jobs_Total |-> Len(kept)]

\* the order of the characters account names are made of
Alphabet == <<" ", "-", "A", "B", "C">>
Rank(c) == CHOOSE i \in DOMAIN Alphabet : Alphabet[i] = c

RECURSIVE StrLess(_, _)
StrLess(a, b) ==
    IF b = <<>> THEN FALSE
    ELSE IF a = <<>> THEN TRUE
    ELSE IF Head(a) = Head(b) THEN StrLess(Tail(a), Tail(b))
    ELSE Rank(Head(a)) < Rank(Head(b))

\* sort_values("Account"): the rows in ascending order of Account, rows of
\* the same Account in their order of arrival
RECURSIVE sort_by_account(_)
sort_by_account(rows) ==
    IF rows = <<>> THEN <<>>
    ELSE LET m == CHOOSE i \in DOMAIN rows :
                    /\ \A j \in DOMAIN rows : ~StrLess(rows[j].Account, rows[i].Account)
                    /\ \A j \in 1..(i - 1) : StrLess(rows[i].Account, rows[j].Account)
         IN  <<rows[m]>> \o sort_by_account(
                 [j \in 1..(Len(rows) - 1) |-> IF j < m THEN rows[j] ELSE rows[j + 1]])

-----------------------------------------------------------------------------
(* The records and pages the remote service answers with                   *)

Job1 == [id |-> PyInt(1), created_at |-> PyStr(<<"2", "0", "2", "5", "-", "0", "3", "-", "0", "1">>)]
Job2 == [id |-> PyInt(2), created_at |-> PyStr(<<"2", "0", "2", "4", "-", "1", "1", "-", "0", "1">>),
         scheduled_start |-> PyStr(<<"2", "0", "2", "5", "-", "0", "1", "-", "1", "5">>)]
Job3 == [id |-> PyInt(3), created_at |-> PyStr(<<"2", "0", "2", "4", "-", "0", "6", "-", "0", "1">>)]
\* the identity "1" again, as a string, other fields, a status of its own
Job1b == [uuid |-> PyStr(<<"1">>), status |-> PyStr(<<"C", "l", "o", "s", "e", "d">>),
          created_at |-> PyStr(<<"2", "0", "2", "4", "-", "1", "2", "-", "3", "0">>),
          scheduled_start |-> PyStr(<<"2", "0", "2", "5", "-", "0", "1", "-", "1", "5", " ", "0", "9", ":", "0", "0", ":", "0", "0">>)]
\* a status that is a number
Job9 == [id |-> PyInt(9), created_at |-> PyStr(<<"2", "0", "2", "5", "-", "0", "3", "-", "0", "1">>), status |-> PyInt(3)]
\* no identity field
Job5 == [created_at |-> PyStr(<<"2", "0", "2", "5", "-", "0", "3", "-", "0", "1", "T", "0", "8", ":", "3", "0", ":", "0", "0", "Z">>), status |-> PyStr(<<" ", "D", "o", "n", "e", " ">>)]

DataPages == {<<Job1>>, <<Job1b>>, <<Job5>>, <<Job2, Job3>>, <<Job1, Job2, Job3>>}

\* the page of PAGE_SIZE records that starts after `base` records; its first
\* record carries a date, the others only their identity
FullPage(base) ==
    [i \in 1..PAGE_SIZE |->
        IF i = 1 THEN [id |-> PyInt(base + i), created_at |-> PyStr(<<"2", "0", "2", "5", "-", "0", "3", "-", "0", "1">>)]
        ELSE [id |-> PyInt(base + i)]]

\* bodies that carry no record
EmptyBodies ==
    {JsonList(<<>>), PyNone, PyStr(<<"<", "h", "t", "m", "l", ">">>),
     JsonDict([error |-> JsonTrue]),
     JsonDict([msg |-> PyStr(<<"o", "k">>)]),
     JsonDict([data |-> PyStr(<<"n", "o", "n", "e">>)])}

\* the shapes a page of records arrives in
Shapes(page) ==
    {JsonList(page), JsonDict([data |-> JsonList(page)]),
     JsonDict([aaData |-> JsonList(page)]),
     JsonDict([data |-> PyNone, aaData |-> JsonList(page)])}

ErrorBody == JsonDict([error |-> JsonTrue, msg |-> PyStr(<<"d", "e", "n", "i", "e", "d">>)])

AccA == [name |-> <<"A">>, token |-> <<"a", "p", "i", "_", "a", "1", "b", "2", "c", "3", "d", "4", "e", "5">>]
AccB == [name |-> <<"B">>, token |-> <<"a", "p", "i", "_", "f", "6", "g", "7", "h", "8", "i", "9", "j", "0">>]

-----------------------------------------------------------------------------
(* Bounds of the remote service                                            *)

MaxData == 2          \* pages of fewer than PAGE_SIZE records, per run
MaxFull == 2          \* pages of PAGE_SIZE records, per run

AllStatuses == DOMAIN JOB_STATUSES

\* accts: the configured accounts; data, full, fault: what the service may
\* still answer (fault: the page fetches that may see failures, -1: any of
\* them); live: the statuses whose
\* pulls it answers with anything but an empty page; retry, final: the
\* failure statuses it uses; pages: the short pages it answers with
Profiles ==
    {[accts |-> <<AccA>>, data |-> MaxData, full |-> 0, fault |-> 0,
      live |-> AllStatuses, retry |-> {}, final |-> {}, pages |-> DataPages],
     [accts |-> <<AccB, AccA>>, data |-> 0, full |-> 0, fault |-> -1,
      live |-> AllStatuses, retry |-> {503}, final |-> {404}, pages |-> {}],
     [accts |-> <<AccA>>, data |-> 0, full |-> 0, fault |-> 1,
      live |-> {1}, retry |-> RETRY_STATUSES, final |-> {400, 401, 404},
      pages |-> {}],
     [accts |-> <<AccA, AccB>>, data |-> MaxData, full |-> 0, fault |-> 0,
      live |-> {1}, retry |-> {}, final |-> {}, pages |-> {<<Job1>>, <<Job9>>}]}

\* the runs in which the service answers with pages of PAGE_SIZE records
PagingProfiles ==
    {[accts |-> <<AccA>>, data |-> 1, full |-> MaxFull, fault |-> 1,
      live |-> {1}, retry |-> {503}, final |-> {404}, pages |-> {<<Job1>>}]}

-----------------------------------------------------------------------------
(* The pull under way                                                      *)

account == accounts[ai]

\* fetch_jobs_for_status and fetch_leads: the path and the base parameters
Path == IF phase = "leads" THEN "/lead/all/" ELSE "/job/all/"

StartDate_swapped == IF phase = "wide" THEN THIS_YEAR_START ELSE WIDE_START

StartDate == IF phase = "wide" THEN WIDE_START ELSE THIS_YEAR_START

BaseParams ==
    IF phase = "leads" THEN << <<"start_date", PyStr(THIS_YEAR_START)>> >>
    ELSE << <<"start_date", PyStr(StartDate)>>,
            <<"only_open", PyStr(<<"f", "a", "l", "s", "e">>)>>,
            <<"status", PyStr(JOB_STATUSES[si])>> >>

Request_moving ==
    [url |-> <<ApiRoot \o account.token, Path>>,
     params |-> BaseParams \o << <<"offset", PyInt(offset + tries)>>,
                                 <<"records", PyInt(PAGE_SIZE)>> >>]

\* the request _get sends: requests.get(url, params=params)
Request ==
    [url |-> <<ApiRoot \o account.token, Path>>,
     params |-> BaseParams \o << <<"offset", PyInt(offset)>>,
                                 <<"records", PyInt(PAGE_SIZE)>> >>]

\* in place of a status: requests.get raised a RequestException
RequestException == -1

\* the body is none of the shapes _normalize_payload takes records from
Unexpected(body) ==
    /\ ~isinstance_list(body)
    /\ ~(isinstance_dict(body) /\ (\/ isinstance_list(Get(body.v, "data"))
                                   \/ isinstance_list(Get(body.v, "aaData"))))

\* a body as _page_through sees it: the page it normalises to, and whether
\* its shape was unexpected
Seen(body) == [page |-> _normalize_payload(body), odd |-> Unexpected(body)]

NoBody == [page |-> <<>>, odd |-> FALSE]

\* the requests of the pull so far and this one: what was sent, the status
\* that came back, the records in the answer and their number, whether the
\* shape of the answer was unexpected
Logged(resp, b) ==
    Append(reqs, [req |-> Request, resp |-> resp, try |-> tries,
                  records |-> Len(b.page), page |-> b.page, odd |-> b.odd])

PullId(a, s, ph) ==
    [account |-> a, phase |-> ph,
     status |-> IF ph = "leads" THEN <<>> ELSE JOB_STATUSES[s]]

\* the service answers this pull with more than an empty page
Live == phase = "leads" \/ si \in env.live

-----------------------------------------------------------------------------
(* main(): what follows the return of a pagination, up to the next request *)

tag_jobs_first_status(rows) ==
    LET tagged == add_account(rows, account.name, Kind_job)
    IN  [i \in DOMAIN tagged |->
            SetItem(tagged[i], "_status_pull", PyStr(JOB_STATUSES[1]))]

\* add_account(rows, name, "job"), then r["_status_pull"] = st for each row
tag_jobs(rows) ==
    LET tagged == add_account(rows, account.name, Kind_job)
    IN  [i \in DOMAIN tagged |->
            SetItem(tagged[i], "_status_pull", PyStr(JOB_STATUSES[si]))]

tag_leads_kept(rows) ==
    SelectSeq(add_account(rows, account.name, Kind_lead),
              keep_created_or_scheduled_this_year)

\* add_account(leads_rows, name, "lead")
tag_leads(rows) == add_account(rows, account.name, Kind_lead)

\* _page_through is entered for the pull (a, s, ph)
StartPull(a, s, ph) ==
    /\ ai' = a /\ si' = s /\ phase' = ph
    /\ offset' = 0 /\ out' = <<>> /\ seen' = {} /\ tries' = 0
    /\ reqs' = <<>>
    /\ pulls' = Append(pulls, PullId(a, s, ph))
    /\ pc' = "fetch"

\* the export step: the three tables, the summary sorted by Account
export(jobs, leads, summary) ==
    <<[jobs |-> jobs, leads |-> leads, counts_summary |-> sort_by_account(summary)]>>

\* an exception no handler catches leaves main(): nothing after it is run
raise_unhandled ==
    /\ pc' = "raised"
    /\ reqs' = <<>>
    /\ UNCHANGED <<ai, si, phase, offset, out, seen, tries, pulls>>

\* rows_c returned: lines 349-352
AfterCreated(rows) ==
    /\ raw_created' = raw_created \o tag_jobs(rows)
    /\ StartPull(ai, si, "wide")
    /\ UNCHANGED <<raw_wide, dedup_map, kept_rows, status_counts, all_jobs,
                   all_leads, per_account_summary, exports, uuid_next, recon>>

\* rows_w returned: lines 356-359, and after the last status lines 361-379
AfterWide(rows) ==
    LET wide == raw_wide \o tag_jobs(rows)
        d == dedup(dedup_input(raw_created, wide), uuid_next)
        kept == keep_rows(d.map)
    IN  /\ raw_wide' = wide
        /\ IF si < Len(JOB_STATUSES)
           THEN /\ StartPull(ai, si + 1, "created")
                /\ UNCHANGED <<dedup_map, kept_rows, status_counts, uuid_next, recon>>
           ELSE /\ dedup_map' = d.map
                /\ uuid_next' = d.n
                /\ kept_rows' = kept
                /\ status_counts' = tally(tally_reach(kept))
                /\ recon' = Append(recon, [created |-> raw_created, wide |-> wide,
                                           dedup |-> d.map, kept |-> kept])
                /\ IF tally_reach(kept) # kept
                   THEN raise_unhandled
                   ELSE StartPull(ai, si, "leads")
        /\ UNCHANGED <<raw_created, all_jobs, all_leads, per_account_summary, exports>>

append_summary_nonempty(summary, acc, leads_rows, counts, kept) ==
    IF kept = <<>> /\ leads_rows = <<>> THEN summary
    ELSE Append(summary, summary_row(acc, leads_rows, counts, kept))

\* per_account_summary.append({...}): lines 395-401
append_summary(summary, acc, leads_rows, counts, kept) ==
    Append(summary, summary_row(acc, leads_rows, counts, kept))

extend_jobs_new_only(jobs, kept) ==
    jobs \o SelectSeq(kept, LAMBDA r :
                \A i \in DOMAIN jobs : IdentityField(jobs[i]) # IdentityField(r))

\* all_jobs.extend(kept_rows)
extend_jobs(jobs, kept) == jobs \o kept

AfterLeads_exports_each(rows) ==
    LET leads_rows == tag_leads(rows)
        jobs == extend_jobs(all_jobs, kept_rows)
        leads == all_leads \o leads_rows
        summary == append_summary(per_account_summary, account, leads_rows,
                                  status_counts, kept_rows)
    IN  /\ all_jobs' = jobs
        /\ all_leads' = leads
        /\ per_account_summary' = summary
        /\ exports' = exports \o export(jobs, leads, summary)
        /\ IF ai < Len(accounts)
           THEN /\ raw_created' = <<>>
                /\ raw_wide' = <<>>
                /\ StartPull(ai + 1, 1, "created")
           ELSE /\ pc' = "done"
                /\ reqs' = <<>>
                /\ UNCHANGED <<raw_created, raw_wide, ai, si, phase, offset, out,
                               seen, tries, pulls>>
        /\ UNCHANGED <<dedup_map, kept_rows, status_counts, uuid_next, recon>>

\* leads_rows returned: lines 383-404, then the next account or lines 408-418
AfterLeads(rows) ==
    LET leads_rows == tag_leads(rows)
        jobs == extend_jobs(all_jobs, kept_rows)
        leads == all_leads \o leads_rows
        summary == append_summary(per_account_summary, account, leads_rows,
                                  status_counts, kept_rows)
    IN  /\ all_jobs' = jobs
        /\ all_leads' = leads
        /\ per_account_summary' = summary
        /\ IF ai < Len(accounts)
           THEN /\ raw_created' = <<>>
                /\ raw_wide' = <<>>
                /\ StartPull(ai + 1, 1, "created")
                /\ UNCHANGED exports
           ELSE /\ exports' = exports \o export(jobs, leads, summary)
                /\ pc' = "done"
                /\ reqs' = <<>>
                /\ UNCHANGED <<raw_created, raw_wide, ai, si, phase, offset, out,
                               seen, tries, pulls>>
        /\ UNCHANGED <<dedup_map, kept_rows, status_counts, uuid_next, recon>>

\* _page_through returns rows; log, status: the requests of the pull and the
\* status its last _get returned; stop: the break taken
AfterPull(rows, log, status, stop) ==
    /\ last_pull' = [id |-> PullId(ai, si, phase), log |-> log, status |-> status,
                     stop |-> stop, rows |-> rows]
    /\ stats' = [stats EXCEPT ![ai] =
                    [ok |-> @.ok \/ status = 200,
                     failed |-> @.failed \/ status # 200,
                     exhausted |-> @.exhausted \/ status = 0,
                     rows |-> @.rows \/ rows # <<>>,
                     partial |-> @.partial \/ (status # 200 /\ rows # <<>>
                                                 /\ phase # "leads")]]
    /\ CASE phase = "created" -> AfterCreated(rows)
         [] phase = "wide" -> AfterWide(rows)
         [] phase = "leads" -> AfterLeads(rows)

-----------------------------------------------------------------------------
(* _page_through and _get                                                  *)

pull_failed_drops_rows(status, log) == AfterPull(<<>>, log, status, "status")

pull_failed_aborts(status, log) ==
    /\ pc' = "done"
    /\ last_pull' = [id |-> PullId(ai, si, phase), log |-> log, status |-> status,
                     stop |-> "status", rows |-> out]
    /\ reqs' = <<>>
    /\ UNCHANGED <<ai, si, phase, offset, out, seen, tries, raw_created, raw_wide,
                   dedup_map, kept_rows, status_counts, all_jobs, all_leads,
                   per_account_summary, exports, uuid_next, pulls, stats, recon>>

\* the status is not 200: the break of lines 216-217, and the return
pull_failed(status, log) == AfterPull(out, log, status, "status")

next_page_prepends(page, log) ==
    /\ seen' = seen \cup {Signature(offset, page)}
    /\ out' = page \o out
    /\ offset' = offset + PAGE_SIZE
    /\ tries' = 0
    /\ reqs' = log
    /\ UNCHANGED <<pc, ai, si, phase, raw_created, raw_wide, dedup_map, kept_rows,
                   status_counts, all_jobs, all_leads, per_account_summary, exports,
                   uuid_next, last_pull, pulls, stats, recon>>

next_page_same_offset(page, log) ==
    /\ seen' = seen \cup {Signature(offset, page)}
    /\ out' = out \o page
    /\ offset' = offset
    /\ tries' = 0
    /\ reqs' = log
    /\ UNCHANGED <<pc, ai, si, phase, raw_created, raw_wide, dedup_map, kept_rows,
                   status_counts, all_jobs, all_leads, per_account_summary, exports,
                   uuid_next, last_pull, pulls, stats, recon>>

\* a page of PAGE_SIZE records with a new signature: lines 231-236
next_page(page, log) ==
    /\ seen' = seen \cup {Signature(offset, page)}
    /\ out' = out \o page
    /\ offset' = offset + PAGE_SIZE
    /\ tries' = 0
    /\ reqs' = log
    /\ UNCHANGED <<pc, ai, si, phase, raw_created, raw_wide, dedup_map, kept_rows,
                   status_counts, all_jobs, all_leads, per_account_summary, exports,
                   uuid_next, last_pull, pulls, stats, recon>>

last_page_alone(page, log) == AfterPull(page, log, 200, "short")

\* a page of fewer than PAGE_SIZE records: lines 232-234, and the return
last_page(page, log) == AfterPull(out \o page, log, 200, "short")

\* _get returned status and a body that normalises to page: lines 216-236
page_step(status, page, log) ==
    IF status # 200 THEN pull_failed(status, log)
    ELSE LET n == Len(page)
         IN  IF n > 0 /\ Signature(offset, page) \in seen
             THEN AfterPull(out, log, status, "repeat")
             ELSE IF n < PAGE_SIZE
                  THEN last_page(page, log)
                  ELSE next_page(page, log)

attempt_failed_last_status(log) ==
    IF tries + 1 < MAX_RETRIES
    THEN /\ tries' = tries + 1
         /\ reqs' = log
         /\ UNCHANGED <<pc, ai, si, phase, offset, out, seen, raw_created, raw_wide,
                        dedup_map, kept_rows, status_counts, all_jobs, all_leads,
                        per_account_summary, exports, uuid_next, last_pull, pulls,
                        stats, recon>>
    ELSE page_step(log[Len(log)].resp, _normalize_payload(ExhaustedBody), log)

attempt_failed_once_more(log) ==
    IF tries < MAX_RETRIES
    THEN /\ tries' = tries + 1
         /\ reqs' = log
         /\ UNCHANGED <<pc, ai, si, phase, offset, out, seen, raw_created, raw_wide,
                        dedup_map, kept_rows, status_counts, all_jobs, all_leads,
                        per_account_summary, exports, uuid_next, last_pull, pulls,
                        stats, recon>>
    ELSE page_step(0, _normalize_payload(ExhaustedBody), log)

\* an attempt failed on a retryable status or a RequestException: lines
\* 189-192 and 196-199, and line 200 when the loop ends
attempt_failed(log) ==
    IF tries + 1 < MAX_RETRIES
    THEN /\ tries' = tries + 1
         /\ reqs' = log
         /\ UNCHANGED <<pc, ai, si, phase, offset, out, seen, raw_created, raw_wide,
                        dedup_map, kept_rows, status_counts, all_jobs, all_leads,
                        per_account_summary, exports, uuid_next, last_pull, pulls,
                        stats, recon>>
    ELSE page_step(0, _normalize_payload(ExhaustedBody), log)

\* the service may fail this attempt
CanFault == Live /\ (tries > 0 \/ env.fault # 0)
Faulted == IF tries = 0 /\ env.fault > 0 THEN [env EXCEPT !.fault = @ - 1] ELSE env

\* requests.get raises a RequestException
NetworkError ==
    /\ pc = "fetch" /\ CanFault /\ env.exc
    /\ env' = Faulted
    /\ attempt_failed(Logged(RequestException, NoBody))
    /\ UNCHANGED <<accounts, sample, result>>

\* the answer is one of 429, 500, 502, 503, 504
RetryableStatus ==
    /\ pc = "fetch" /\ CanFault
    /\ \E s \in env.retry :
          /\ s \in RETRY_STATUSES
          /\ attempt_failed(Logged(s, NoBody))
    /\ env' = Faulted
    /\ UNCHANGED <<accounts, sample, result>>

\* the answer is another status that is not 200
TerminalStatus ==
    /\ pc = "fetch" /\ CanFault
    /\ \E s \in env.final :
          /\ s # 200 /\ s \notin RETRY_STATUSES
          /\ page_step(s, _normalize_payload(ErrorBody), Logged(s, NoBody))
    /\ env' = Faulted
    /\ UNCHANGED <<accounts, sample, result>>

\* the answer is 200 and carries no record
Ok200Empty ==
    /\ pc = "fetch"
    /\ \E b \in {Seen(body) : body \in EmptyBodies} :
          page_step(200, b.page, Logged(200, b))
    /\ UNCHANGED <<accounts, env, sample, result>>

\* the answer is 200 with fewer than PAGE_SIZE records
Ok200Short ==
    /\ pc = "fetch" /\ Live /\ env.data > 0
    /\ \E b \in {Seen(body) : body \in UNION {Shapes(rows) : rows \in env.pages}} :
          page_step(200, b.page, Logged(200, b))
    /\ env' = [env EXCEPT !.data = @ - 1]
    /\ UNCHANGED <<accounts, sample, result>>

\* the answer is 200 with PAGE_SIZE records: the page at the offset asked
\* for, or the first page whatever the offset
Ok200Full ==
    /\ pc = "fetch" /\ Live /\ env.full > 0
    /\ \E b \in {Seen(JsonList(rows)) : rows \in {FullPage(offset), FullPage(0)}} :
          page_step(200, b.page, Logged(200, b))
    /\ env' = [env EXCEPT !.full = @ - 1]
    /\ UNCHANGED <<accounts, sample, result>>

-----------------------------------------------------------------------------
(* The run                                                                 *)

\* the state main() starts from, the service following profile p
Start(p) ==
        /\ accounts = p.accts
        /\ env = [data |-> p.data, full |-> p.full, fault |-> p.fault,
                  live |-> p.live, retry |-> p.retry, final |-> p.final,
                  pages |-> p.pages, exc |-> p.fault # 0]
        /\ pc = "fetch"
        /\ ai = 1 /\ si = 1 /\ phase = "created"
        /\ offset = 0 /\ out = <<>> /\ seen = {} /\ tries = 0
        /\ raw_created = <<>> /\ raw_wide = <<>>
        /\ dedup_map = <<>> /\ kept_rows = <<>> /\ status_counts = <<>>
        /\ all_jobs = <<>> /\ all_leads = <<>> /\ per_account_summary = <<>>
        /\ exports = <<>>
        /\ uuid_next = 0
        /\ reqs = <<>>
        /\ last_pull = <<>>
        /\ pulls = <<PullId(1, 1, "created")>>
        /\ stats = [a \in DOMAIN p.accts |->
                        [ok |-> FALSE, failed |-> FALSE, exhausted |-> FALSE,
                         rows |-> FALSE, partial |-> FALSE]]
        /\ recon = <<>>
        /\ sample = <<>> /\ result = <<>>

Init == \E p \in Profiles : Start(p)

Next ==
    \/ NetworkError
    \/ RetryableStatus
    \/ TerminalStatus
    \/ Ok200Empty
    \/ Ok200Short

Spec == Init /\ [][Next]_vars

\* the runs against a service that has PAGE_SIZE records and more to give
InitPaging == \E p \in PagingProfiles : Start(p)

NextPaging ==
    \/ NetworkError
    \/ RetryableStatus
    \/ TerminalStatus
    \/ Ok200Empty
    \/ Ok200Short
    \/ Ok200Full

SpecPaging == InitPaging /\ [][NextPaging]_vars

-----------------------------------------------------------------------------
(* keep_created_or_scheduled_this_year on its own                          *)

Merge(f, g) == [x \in DOMAIN f \cup DOMAIN g |-> IF x \in DOMAIN f THEN f[x] ELSE g[x]]

Field(k, v) == [x \in {k} |-> v]

\* what a date field may hold, and the calendar year it states (0: none);
\* k is the name the field goes by, k2 a name of lower priority
DateForms(k, k2) ==
    {[f |-> <<>>, year |-> 0],
     [f |-> Field(k, PyNone), year |-> 0],
     [f |-> Field(k, PyStr(<<>>)), year |-> 0],
     [f |-> Field(k, PyInt(THIS_YEAR)), year |-> 0],
     [f |-> Field(k, PyStr(<<"s", "o", "o", "n">>)), year |-> 0],
     [f |-> Field(k, PyStr(<<"2", "0", "2", "5", "-", "1", "3", "-", "0", "1">>)), year |-> 0],
     [f |-> Field(k, PyStr(<<"0", "3", "/", "0", "1", "/", "2", "0", "2", "5">>)), year |-> 0],
     [f |-> Field(k, PyStr(<<"2", "0", "2", "4", "-", "1", "2", "-", "3", "1">>)), year |-> 2024],
     [f |-> Field(k, PyStr(<<"2", "0", "2", "5", "-", "0", "3", "-", "0", "1">>)), year |-> 2025],
     [f |-> Field(k, PyStr(<<" ", "2", "0", "2", "5", "-", "1", "2", "-", "3", "1", " ">>)), year |-> 2025],
     [f |-> Field(k, PyStr(<<"2", "0", "2", "5", "-", "0", "1", "-", "1", "5", " ", "0", "9", ":", "0", "0", ":", "0", "0">>)), year |-> 2025],
     [f |-> Field(k, PyStr(<<"2", "0", "2", "5", "-", "0", "3", "-", "0", "1", "T", "0", "8", ":", "3", "0", ":", "0", "0", "Z">>)), year |-> 2025],
     [f |-> Field(k, PyStr(<<"2", "0", "2", "4", "-", "1", "2", "-", "3", "1", "T", "2", "3", ":", "5", "9", ":", "5", "9", "Z">>)), year |-> 2024],
     [f |-> Field(k, PyStr(<<"2", "0", "2", "6", "-", "0", "1", "-", "0", "1", "T", "1", "2", ":", "0", "0", ":", "0", "0", "+", "0", "0", ":", "0", "0">>)), year |-> 2026],
     \* the name of higher priority is empty: the next one is probed
     [f |-> Merge(Field(k, PyStr(<<>>)), Field(k2, PyStr(<<"2", "0", "2", "5", "-", "0", "3", "-", "0", "1">>))), year |-> 2025],
     \* the name of higher priority holds no date: it is the one probed
     [f |-> Merge(Field(k, PyStr(<<"s", "o", "o", "n">>)), Field(k2, PyStr(<<"2", "0", "2", "5", "-", "0", "3", "-", "0", "1">>))), year |-> 0],
     \* the name of higher priority holds a date of another year
     [f |-> Merge(Field(k, PyStr(<<"2", "0", "2", "4", "-", "1", "2", "-", "3", "1">>)), Field(k2, PyStr(<<"2", "0", "2", "5", "-", "0", "3", "-", "0", "1">>))), year |-> 2024]}

\* the records retention is applied to, with the years their dates state
Samples ==
    {[row |-> Merge(Field("id", PyInt(7)), Merge(c.f, s.f)), created |-> c.year,
      scheduled |-> s.year] :
        c \in DateForms("created_at", "CreatedDate"),
        s \in DateForms("scheduled_start", "ScheduledStart")}

InitKeep ==
    /\ sample \in Samples
    /\ result = <<>>
    /\ pc = "keep"
    /\ accounts = <<>> /\ env = <<>>
    /\ ai = 1 /\ si = 1 /\ phase = "created"
    /\ offset = 0 /\ out = <<>> /\ seen = {} /\ tries = 0
    /\ raw_created = <<>> /\ raw_wide = <<>>
    /\ dedup_map = <<>> /\ kept_rows = <<>> /\ status_counts = <<>>
    /\ all_jobs = <<>> /\ all_leads = <<>> /\ per_account_summary = <<>>
    /\ exports = <<>>
    /\ uuid_next = 0
    /\ reqs = <<>>
    /\ last_pull = <<>>
    /\ pulls = <<>>
    /\ stats = <<>>
    /\ recon = <<>>

\* keep_created_or_scheduled_this_year(row) is called
Keep ==
    /\ pc = "keep" /\ result = <<>>
    /\ result' = <<keep_created_or_scheduled_this_year(sample.row)>>
    /\ UNCHANGED <<accounts, env, pc, ai, si, phase, offset, out, seen, tries,
                   raw_created, raw_wide, dedup_map, kept_rows, status_counts,
                   all_jobs, all_leads, per_account_summary, exports, uuid_next,
                   reqs, last_pull, pulls, stats, recon, sample>>

NextKeep == Keep

SpecKeep == InitKeep /\ [][NextKeep]_vars

-----------------------------------------------------------------------------
(* Properties                                                              *)

IdentityNames == {"uuid", "UUID", "id", "Id"}

\* the record carries an identity field
HasIdentity(r) == \E f \in IdentityNames : f \in DOMAIN r /\ Truthy(r[f])

\* the record as the service sent it, without the fields main() adds
Untagged(r) == [x \in DOMAIN r \ {"Account", "_kind", "_status_pull"} |-> r[x]]

\* the created-window records, then the wide-window records of a reconciliation
Pulled(e) == e.created \o e.wide

\* the identity key of a record that carries an identity field
KeyOf(r) == str(IdentityField(r))

\* C1: in every reconciliation whose records all carry an identity field, the
\* keys of the deduplicated mapping are pairwise distinct, every record's key
\* is one of them, and the record stored under a key is the first record with
\* that key in the created-window records followed by the wide-window ones.
C1_FirstOccurrenceWins ==
    \A n \in DOMAIN recon :
        LET rows == Pulled(recon[n])
            map == recon[n].dedup
        IN  (\A i \in DOMAIN rows : HasIdentity(rows[i])) =>
                /\ \A a, b \in DOMAIN map : map[a].k = map[b].k => a = b
                /\ \A i \in DOMAIN rows : \E a \in DOMAIN map : map[a].k = KeyOf(rows[i])
                /\ \A a \in DOMAIN map :
                      \E i \in DOMAIN rows :
                          /\ KeyOf(rows[i]) = map[a].k
                          /\ map[a].r = rows[i]
                          /\ \A j \in 1..(i - 1) : KeyOf(rows[j]) # map[a].k

\* a reconciliation in which a wide-window record has the key of a different
\* created-window record
C1_Witness ==
    \E n \in DOMAIN recon :
        LET e == recon[n]
        IN  /\ \A i \in DOMAIN Pulled(e) : HasIdentity(Pulled(e)[i])
            /\ \E i \in DOMAIN e.created : \E j \in DOMAIN e.wide :
                  /\ KeyOf(e.created[i]) = KeyOf(e.wide[j])
                  /\ e.created[i] # e.wide[j]

\* C2: retention is true exactly when the created date or the scheduled date
\* of the record is in the target year; in particular it is false when
\* neither field holds a date.
C2_RetentionCorrect ==
    result # <<>> =>
        /\ (sample.created = THIS_YEAR \/ sample.scheduled = THIS_YEAR) => result[1] = TRUE
        /\ (sample.created # THIS_YEAR /\ sample.scheduled # THIS_YEAR) => result[1] = FALSE
        /\ (sample.created = 0 /\ sample.scheduled = 0) => result[1] = FALSE

\* a record kept for its scheduled date alone, written with a time of day
C2_Witness ==
    /\ result = <<TRUE>>
    /\ sample.created = 2024
    /\ sample.scheduled = THIS_YEAR
    /\ Len(sample.row["scheduled_start"].v) > 10

\* the k-th page of PAGE_SIZE records among the records a pull has collected
PageOf(rows, k) == SubSeq(rows, (k - 1) * PAGE_SIZE + 1, k * PAGE_SIZE)

\* C3: a pull that is answered with the page it was answered with just before
\* does not take it in again: the repeated-signature check ends the pull.
C3_SamePageEndsByRepeat ==
    \A k \in 1..(Len(out) \div PAGE_SIZE) :
        k > 1 => PageOf(out, k) # PageOf(out, k - 1)

\* the answers with status 200 among the requests of a pull
Successful(log) == SelectSeq(log, LAMBDA e : e.resp = 200)

\* the offset parameter of a request
OffsetOf(req) ==
    LET i == CHOOSE j \in DOMAIN req.params : req.params[j][1] = "offset"
    IN  req.params[i][2].v

\* the first successful answer held PAGE_SIZE records, the second none
FullThenEmpty(log) ==
    LET ok == Successful(log)
    IN  Len(ok) >= 2 /\ ok[1].records = PAGE_SIZE /\ ok[2].records = 0

\* C4: a pull whose first successful answer holds PAGE_SIZE records and whose
\* second holds none has ended with the second; it made 2 successful fetches,
\* at offsets 0 and PAGE_SIZE, and it returned the PAGE_SIZE records.
C4_FullPageThenEmpty ==
    /\ ~FullThenEmpty(reqs)
    /\ (last_pull # <<>> /\ FullThenEmpty(last_pull.log)) =>
          LET ok == Successful(last_pull.log)
          IN  /\ Len(ok) = 2
              /\ OffsetOf(ok[1].req) = 0
              /\ OffsetOf(ok[2].req) = PAGE_SIZE
              /\ last_pull.log[Len(last_pull.log)] = ok[2]
              /\ last_pull.status = 200
              /\ last_pull.stop = "short"
              /\ last_pull.rows = FullPage(0)

\* a pull has returned after a page of PAGE_SIZE records and an empty one
C4_Witness == last_pull # <<>> /\ FullThenEmpty(last_pull.log)

\* every attempt of the pull was answered 503
Only503(log) == log # <<>> /\ \A i \in DOMAIN log : log[i].resp = 503

\* C5: a pull all of whose attempts are answered 503 sends the same request
\* MAX_RETRIES times and no more; _get then returns status 0 and the pull
\* returns, with no record.
C5_RetryBound ==
    /\ (pc = "fetch" /\ Only503(reqs)) => Len(reqs) < MAX_RETRIES
    /\ (last_pull # <<>> /\ Only503(last_pull.log)) =>
          /\ Len(last_pull.log) = MAX_RETRIES
          /\ \A i \in DOMAIN last_pull.log :
                /\ last_pull.log[i].req = last_pull.log[1].req
                /\ last_pull.log[i].try = i - 1
          /\ last_pull.status = 0
          /\ last_pull.stop = "status"
          /\ last_pull.rows = <<>>

\* a pull has returned after being answered 503 only
C5_Witness == last_pull # <<>> /\ Only503(last_pull.log)

\* the sum of the five per-status counts of a summary row
JobsByStatus(row) ==
    row.Jobs[JOB_STATUSES[1]] + row.Jobs[JOB_STATUSES[2]] + row.Jobs[JOB_STATUSES[3]]
        + row.Jobs[JOB_STATUSES[4]] + row.Jobs[JOB_STATUSES[5]]

\* the kept job records of an account
JobsOf(name) ==
    {i \in DOMAIN all_jobs : /\ all_jobs[i]["Account"] = PyStr(name)
                             /\ all_jobs[i]["_kind"] = PyStr(Kind_job)}

\* C6: in every summary row, Jobs_Total is the sum of the five per-status
\* counts of the row, and the number of kept job records of the account.
C6_SummaryConsistent ==
    \A n \in DOMAIN per_account_summary :
        LET row == per_account_summary[n]
        IN  /\ row.Jobs_Total = JobsByStatus(row)
            /\ row.Jobs_Total = Cardinality(JobsOf(row.Account))

\* the records of a pull as the service sent them
UntaggedAll(rows) == [i \in DOMAIN rows |-> Untagged(rows[i])]

\* the pulls of the end-to-end scenario
Scenario(e) ==
    /\ UntaggedAll(e.created) = <<Job1>>
    /\ UntaggedAll(e.wide) = <<Job1, Job2, Job3>>

\* C7: with target year 2025, when the created-window pulls yield the job 1
\* and the wide-window pulls the jobs 1, 2 and 3, the deduplicated mapping has
\* the keys 1, 2 and 3, the kept records are 1 and 2, and Jobs_Total is 2.
C7_EndToEnd ==
    \A n \in DOMAIN recon :
        (THIS_YEAR = 2025 /\ Scenario(recon[n])) =>
            /\ Len(recon[n].dedup) = 3
            /\ DedupKeys(recon[n].dedup) = {<<"1">>, <<"2">>, <<"3">>}
            /\ UntaggedAll(recon[n].kept) = <<Job1, Job2>>
            /\ n \in DOMAIN per_account_summary =>
                  per_account_summary[n].Jobs_Total = 2

\* the scenario has happened and the summary row is written
C7_Witness ==
    \E n \in DOMAIN per_account_summary : Scenario(recon[n])

\* pulls per account: the two windows of every status, then the leads
PullsPerAccount == 2 * Len(JOB_STATUSES) + 1

\* the pulls of a run in the order main() issues them
AllPulls ==
    [k \in 1..(PullsPerAccount * Len(accounts)) |->
        LET a == ((k - 1) \div PullsPerAccount) + 1
            j == ((k - 1) % PullsPerAccount) + 1
        IN  IF j = PullsPerAccount THEN PullId(a, Len(JOB_STATUSES), "leads")
            ELSE PullId(a, (j + 1) \div 2, IF j % 2 = 1 THEN "created" ELSE "wide")]

\* C8: a pull whose page fetch exhausted its retries has stopped there, and
\* the run goes on: the pulls issued are always the pulls of the run in
\* order, none skipped; after an exhausted pull the next one is issued or the
\* export is reached; and the run ends only with every pull issued and the
\* export done.
C8_ExhaustionDoesNotAbort ==
    /\ pc \in {"fetch", "done", "raised"}
    /\ Len(pulls) <= Len(AllPulls)
    /\ pulls = SubSeq(AllPulls, 1, Len(pulls))
    /\ (last_pull # <<>> /\ last_pull.status = 0) =>
          /\ last_pull.stop = "status"
          /\ last_pull.log[Len(last_pull.log)].try = MAX_RETRIES - 1
          /\ pc = "fetch" =>
                /\ Len(pulls) >= 2
                /\ pulls[Len(pulls) - 1] = last_pull.id
          /\ pc = "done" =>
                /\ pulls[Len(pulls)] = last_pull.id
                /\ Len(exports) = 1
    /\ pc = "done" => (pulls = AllPulls /\ Len(exports) = 1)
    /\ pc = "fetch" => exports = <<>>

\* the run of two accounts reached the export although a pull of the first
\* account had exhausted its retries
C8_Witness ==
    /\ pc = "done"
    /\ Len(accounts) = 2
    /\ stats[1].exhausted
    /\ Len(exports) = 1

\* C9: when a created-window record without identity field comes again in
\* the wide window, the deduplicated mapping holds the two copies under two
\* distinct keys; if the record passes retention both copies are kept, and
\* Jobs_Total counts them both.
C9_NoIdentityNeverMerged ==
    \A n \in DOMAIN recon :
        LET e == recon[n]
        IN  \A i \in DOMAIN e.created : \A j \in DOMAIN e.wide :
                (/\ ~HasIdentity(e.created[i])
                 /\ Untagged(e.created[i]) = Untagged(e.wide[j])) =>
                    /\ \E a, b \in DOMAIN e.dedup :
                          /\ a # b
                          /\ e.dedup[a].k # e.dedup[b].k
                          /\ e.dedup[a].r = e.created[i]
                          /\ e.dedup[b].r = e.wide[j]
                    /\ keep_created_or_scheduled_this_year(e.created[i]) =>
                          /\ \E x, y \in DOMAIN e.kept :
                                /\ x # y
                                /\ e.kept[x] = e.created[i]
                                /\ e.kept[y] = e.wide[j]
                          /\ n \in DOMAIN per_account_summary =>
                                /\ per_account_summary[n].Jobs_Total = Len(e.kept)
                                /\ per_account_summary[n].Jobs_Total >= 2

\* a record without identity field came in both windows, passed retention,
\* and the summary row is written
C9_Witness ==
    \E n \in DOMAIN per_account_summary :
        \E i \in DOMAIN recon[n].created : \E j \in DOMAIN recon[n].wide :
            /\ ~HasIdentity(recon[n].created[i])
            /\ Untagged(recon[n].created[i]) = Untagged(recon[n].wide[j])
            /\ keep_created_or_scheduled_this_year(recon[n].created[i])

\* the row of an account that has nothing
ZeroRow(row) ==
    /\ row.Leads = 0
    /\ \A st \in Range(JOB_STATUSES) : row.Jobs[st] = 0
    /\ row.Jobs_Total = 0

\* C10: when the run is complete the summary holds one row per configured
\* account, in the order of the accounts, and so does the exported table;
\* the row of an account none of whose pulls returned a record is all zero.
C10_OneRowPerAccount ==
    pc = "done" =>
        /\ Len(per_account_summary) = Len(accounts)
        /\ \A a \in DOMAIN accounts :
              /\ per_account_summary[a].Account = accounts[a].name
              /\ ~stats[a].rows => ZeroRow(per_account_summary[a])
        /\ Len(exports[1].counts_summary) = Len(accounts)
        /\ Range(exports[1].counts_summary) = Range(per_account_summary)

\* the run is complete, and every pull of its first account failed
C10_Witness ==
    /\ pc = "done"
    /\ Len(accounts) = 2
    /\ stats[1].failed /\ ~stats[1].ok
    /\ ZeroRow(per_account_summary[1])

-----------------------------------------------------------------------------
(* red_token and the endpoint of the summary row on their own              *)

\* the variables of main() and of the pull under way
main_vars == <<accounts, env, ai, si, phase, offset, out, seen, tries,
               raw_created, raw_wide, dedup_map, kept_rows, status_counts,
               all_jobs, all_leads, per_account_summary, exports, uuid_next,
               reqs, last_pull, pulls, stats, recon>>

\* no run of main() is under way
NoRun ==
    /\ accounts = <<>> /\ env = <<>>
    /\ ai = 1 /\ si = 1 /\ phase = "created"
    /\ offset = 0 /\ out = <<>> /\ seen = {} /\ tries = 0
    /\ raw_created = <<>> /\ raw_wide = <<>>
    /\ dedup_map = <<>> /\ kept_rows = <<>> /\ status_counts = <<>>
    /\ all_jobs = <<>> /\ all_leads = <<>> /\ per_account_summary = <<>>
    /\ exports = <<>>
    /\ uuid_next = 0
    /\ reqs = <<>>
    /\ last_pull = <<>>
    /\ pulls = <<>>
    /\ stats = <<>>
    /\ recon = <<>>

MaxTokenLen == 5      \* length of the credentials drawn exhaustively

\* the sequences over S of length n
RECURSIVE SeqsOfLen(_, _)
SeqsOfLen(S, n) ==
    IF n = 0 THEN {<<>>}
    ELSE {Append(s, c) : s \in SeqsOfLen(S, n - 1), c \in S}

\* credentials: every one of 1 to MaxTokenLen characters over two characters,
\* and some around the length red_token redacts from
Tokens ==
    UNION {SeqsOfLen({"a", "_"}, n) : n \in 1..MaxTokenLen}
        \cup {<<"a", "p", "i", "_", "a", "1", "b", "2", "c">>, <<"a", "p", "i", "_", "a", "1", "b", "2", "c", "3">>, <<"a", "p", "i", "_", "a", "1", "b", "2", "c", "3", "d">>, <<"a", "p", "i", "_", "a", "1", "b", "2", "c", "3", "d", "4">>,
              <<"a", "p", "i", "_", "a", "1", "b", "2", "c", "3", "d", "4", "e", "5">>, <<"a", "a", "a", "a", "a", "a", "a", "a", "a", "a", "a", "a">>}

InitRedact ==
    /\ sample \in {[name |-> <<"A">>, token |-> tok] : tok \in Tokens}
    /\ result = <<>>
    /\ pc = "redact"
    /\ NoRun

\* the summary row of the account is built: lines 332-335 and 395-401
Redact ==
    /\ pc = "redact" /\ result = <<>>
    /\ result' = <<summary_row(sample, <<>>, tally(<<>>), <<>>)>>
    /\ UNCHANGED <<main_vars, pc, sample>>

NextRedact == Redact

SpecRedact == InitRedact /\ [][NextRedact]_vars

\* t occurs in s as a run of consecutive characters
Occurs(t, s) ==
    \E i \in 0..(Len(s) - Len(t)) : SubSeq(s, i + 1, i + Len(t)) = t

\* C11: whatever the credential of the account, the Endpoint of its summary
\* row does not contain the credential in full.
C11_EndpointHidesCredential ==
    result # <<>> => ~Occurs(sample.token, result[1].Endpoint)

\* the status field of the record itself, blanks around it set aside
OwnStatus(r) ==
    IF "status" \in DOMAIN r THEN strip(r["status"].v)
    ELSE IF "JobStatus" \in DOMAIN r THEN strip(r["JobStatus"].v)
    ELSE <<>>

\* the status a kept job is to be counted under
CountedUnder(r) ==
    IF OwnStatus(r) \in Range(JOB_STATUSES) THEN OwnStatus(r)
    ELSE r["_status_pull"].v

\* C12: every per-status count of a summary row is the number of kept jobs
\* whose own status is that status, or whose own status is absent or not one
\* of the five and which were fetched under that status.
C12_TallyByOwnOrPulledStatus ==
    \A n \in DOMAIN per_account_summary :
        \A st \in Range(JOB_STATUSES) :
            per_account_summary[n].Jobs[st] =
                Cardinality({i \in DOMAIN recon[n].kept :
                                CountedUnder(recon[n].kept[i]) = st})

-----------------------------------------------------------------------------
(* get_uuid on its own                                                     *)

\* the names get_uuid probes, in its order
IdentityOrder == <<"uuid", "UUID", "id", "Id">>

\* what an identity field may hold
IdentityValues == {PyNone, PyInt(0), PyStr(<<>>), PyInt(7), PyStr(<<"u", "7">>)}

\* the records get_uuid is applied to: every choice of fields present, with
\* every choice of their values
IdentityRows ==
    UNION {[present -> IdentityValues] : present \in SUBSET Range(IdentityOrder)}

InitUuid ==
    /\ sample \in {[row |-> Merge(r, Field("created_at", PyStr(<<"2", "0", "2", "5", "-", "0", "3", "-", "0", "1">>)))] :
                      r \in IdentityRows}
    /\ result = <<>>
    /\ pc = "uuid"
    /\ NoRun

\* get_uuid(row) is called
Uuid ==
    /\ pc = "uuid" /\ result = <<>>
    /\ result' = <<get_uuid(sample.row, uuid_next)>>
    /\ UNCHANGED <<main_vars, pc, sample>>

NextUuid == Uuid

SpecUuid == InitUuid /\ [][NextUuid]_vars

\* the first of the four names the record has a field of (0: none)
RECURSIVE FirstPresent(_, _)
FirstPresent(row, i) ==
    IF i > Len(IdentityOrder) THEN 0
    ELSE IF IdentityOrder[i] \in DOMAIN row THEN i
    ELSE FirstPresent(row, i + 1)

\* the key is a generated identifier
Generated(key) == \E n \in 0..1 : key = str([t |-> "uuid", v |-> n])

\* C13: the key of a record is the string form of the value of the first of
\* uuid, UUID, id, Id the record has; it is a generated identifier only when
\* the record has none of the four.
C13_FirstPresentIdentity ==
    result # <<>> =>
        LET i == FirstPresent(sample.row, 1)
        IN  IF i = 0 THEN Generated(result[1])
            ELSE result[1] = str(sample.row[IdentityOrder[i]])

-----------------------------------------------------------------------------
(* Properties of _get and _page_through                                    *)

\* the attempt failed in a way _get retries on
Retried(resp) == resp \in {429, 500, 502, 503, 504} \/ resp = RequestException

\* the requests of a log that carry the request req
Sent(log, req) == {i \in DOMAIN log : log[i].req = req}

\* the log is made of _get calls: each a first request and retries of it,
\* every retry after a failure of the request before it
CallsWellFormed(log) ==
    \A i \in DOMAIN log :
        /\ log[i].try \in 0..(MAX_RETRIES - 1)
        /\ Cardinality(Sent(log, log[i].req)) <= MAX_RETRIES
        /\ log[i].try > 0 =>
              /\ i > 1
              /\ log[i - 1].req = log[i].req
              /\ log[i - 1].try = log[i].try - 1
              /\ Retried(log[i - 1].resp)
        /\ (log[i].try = 0 /\ i > 1) =>
              /\ log[i - 1].resp = 200
              /\ log[i - 1].req # log[i].req
        /\ (Retried(log[i].resp) /\ i < Len(log)) => log[i + 1].try = log[i].try + 1

\* C14: in every _get call the retries repeat the request of the call, a
\* retry follows only a failure by retryable status or by exception, and the
\* call sends at most MAX_RETRIES requests, the failures of both kinds
\* counted together.
C14_RetriesRepeatWithinBound ==
    /\ CallsWellFormed(reqs)
    /\ last_pull # <<>> => CallsWellFormed(last_pull.log)
    /\ pc = "fetch" =>
          /\ tries < MAX_RETRIES
          /\ tries = 0 => (reqs = <<>> \/ reqs[Len(reqs)].resp = 200)
          /\ tries > 0 => (reqs # <<>> /\ reqs[Len(reqs)].try = tries - 1
                                       /\ Retried(reqs[Len(reqs)].resp))

\* a call of MAX_RETRIES requests that failed by exception and by two
\* different statuses
C14_Witness ==
    /\ last_pull # <<>>
    /\ Len(last_pull.log) = MAX_RETRIES
    /\ \E i, j, k \in DOMAIN last_pull.log :
          /\ last_pull.log[i].resp = RequestException
          /\ last_pull.log[j].resp = 429
          /\ last_pull.log[k].resp = 504
    /\ \A i \in DOMAIN last_pull.log : last_pull.log[i].req = last_pull.log[1].req

\* a status that is neither 200 nor retried
Terminal(resp) == resp # 200 /\ ~Retried(resp)

\* the pages of the successful answers of a log, one after the other
RECURSIVE Fetched(_)
Fetched(log) ==
    IF log = <<>> THEN <<>>
    ELSE LET front == Fetched(SubSeq(log, 1, Len(log) - 1))
             e == log[Len(log)]
         IN  IF e.resp = 200 THEN front \o e.page ELSE front

\* C15: an answer with a status that is neither 200 nor retried is the last
\* request of its pull: it is not retried and no request at a higher offset
\* follows; when it answers the first request for its page that request is
\* the only one for the page; and the pull returns the records of the pages
\* fetched before it.
C15_TerminalStatusEndsPull ==
    /\ \A i \in DOMAIN reqs : ~Terminal(reqs[i].resp)
    /\ last_pull # <<>> =>
          \A i \in DOMAIN last_pull.log :
              Terminal(last_pull.log[i].resp) =>
                  /\ i = Len(last_pull.log)
                  /\ last_pull.log[i].try = 0 =>
                        Sent(last_pull.log, last_pull.log[i].req) = {i}
                  /\ last_pull.status = last_pull.log[i].resp
                  /\ last_pull.stop = "status"
                  /\ last_pull.rows = Fetched(last_pull.log)

\* a pull ended on a 404 answered to the first request for its second page
C15_Witness ==
    /\ last_pull # <<>>
    /\ Len(last_pull.log) = 2
    /\ last_pull.log[1].resp = 200
    /\ last_pull.log[2].resp = 404
    /\ Len(last_pull.rows) = PAGE_SIZE

\* the request was the last attempt _get makes, and it failed
LastAttemptFailed(e) == e.try = MAX_RETRIES - 1 /\ Retried(e.resp)

\* C16: when the last attempt for a page fails too, by retryable status or by
\* exception, _get returns status 0, not the status of the last answer; the
\* pull sends nothing more and returns the records of the pages fetched
\* before, none for this page.
C16_ExhaustionIsSynthetic ==
    /\ \A i \in DOMAIN reqs : ~LastAttemptFailed(reqs[i])
    /\ last_pull # <<>> =>
          \A i \in DOMAIN last_pull.log :
              LastAttemptFailed(last_pull.log[i]) =>
                  /\ i = Len(last_pull.log)
                  /\ last_pull.status = 0
                  /\ last_pull.status # last_pull.log[i].resp
                  /\ last_pull.stop = "status"
                  /\ last_pull.rows = Fetched(last_pull.log)

\* a pull fetched a page, then failed MAX_RETRIES times on the next, by
\* exception and by status, the last time by status
C16_Witness ==
    /\ last_pull # <<>>
    /\ Len(last_pull.log) = MAX_RETRIES + 1
    /\ last_pull.log[1].resp = 200
    /\ \E i \in DOMAIN last_pull.log : last_pull.log[i].resp = RequestException
    /\ last_pull.log[MAX_RETRIES + 1].resp = 503
    /\ Len(last_pull.rows) = PAGE_SIZE

\* the records parameter of a request
RecordsOf(req) ==
    LET i == CHOOSE j \in DOMAIN req.params : req.params[j][1] = "records"
    IN  req.params[i][2].v

\* the successful answers among the first n requests of a log
SuccessfulBefore(log, n) == {j \in 1..n : log[j].resp = 200}

\* every request asks for PAGE_SIZE records at the offset PAGE_SIZE times the
\* number of pages fetched before it, and every page but the last fetched
\* holds PAGE_SIZE records
OffsetsInOrder(log) ==
    \A i \in DOMAIN log :
        /\ RecordsOf(log[i].req) = PAGE_SIZE
        /\ OffsetOf(log[i].req) = PAGE_SIZE * Cardinality(SuccessfulBefore(log, i - 1))
        /\ (log[i].resp = 200 /\ i < Len(log)) => log[i].records = PAGE_SIZE

\* C17: the offsets asked for are 0, PAGE_SIZE, 2 * PAGE_SIZE, ..., one step
\* further after each answer 200 with PAGE_SIZE records and only then; the
\* records collected, and returned, are the pages of the successful answers
\* in the order of the requests, the last short page included.
C17_OffsetsAndConcatenation ==
    /\ OffsetsInOrder(reqs)
    /\ pc = "fetch" =>
          /\ offset = PAGE_SIZE * Cardinality(SuccessfulBefore(reqs, Len(reqs)))
          /\ out = Fetched(reqs)
          /\ \A i \in DOMAIN reqs : reqs[i].resp = 200 => reqs[i].records = PAGE_SIZE
    /\ last_pull # <<>> =>
          /\ OffsetsInOrder(last_pull.log)
          /\ last_pull.rows = Fetched(last_pull.log)
          /\ last_pull.log[Len(last_pull.log)].resp = 200 =>
                last_pull.log[Len(last_pull.log)].records < PAGE_SIZE

\* a pull fetched two different pages of PAGE_SIZE records and a short one
C17_Witness ==
    /\ last_pull # <<>>
    /\ Len(Successful(last_pull.log)) = 3
    /\ Successful(last_pull.log)[1].page # Successful(last_pull.log)[2].page
    /\ Len(last_pull.rows) = 2 * PAGE_SIZE + 1
    /\ OffsetOf(last_pull.log[Len(last_pull.log)].req) = 2 * PAGE_SIZE

-----------------------------------------------------------------------------
(* _normalize_payload on its own                                           *)

JsonFalse == [t |-> "bool", v |-> FALSE]

\* what the data or the aaData field of an object may hold
ListFieldValues ==
    {PyNone, PyStr(<<"n", "o", "n", "e">>), JsonList(<<>>), JsonList(<<Job1>>), JsonList(<<Job2, Job3>>)}

\* what the error field of an object may hold
ErrorFieldValues == {JsonTrue, JsonFalse, PyStr(<<"y", "e", "s">>)}

\* the objects: every choice of data, aaData and error present, with every
\* choice of their values
Objects ==
    {JsonDict(Merge(d, Merge(a, e))) :
        d \in {<<>>} \cup {Field("data", v) : v \in ListFieldValues},
        a \in {<<>>} \cup {Field("aaData", v) : v \in ListFieldValues},
        e \in {<<>>} \cup {Field("error", v) : v \in ErrorFieldValues}}

Bodies ==
    Objects \cup {PyNone, PyStr(<<"<", "h", "t", "m", "l", ">">>), JsonList(<<>>), JsonList(<<Job1>>),
                  JsonList(<<Job1, Job2, Job3>>)}

InitNormalize ==
    /\ sample \in {[body |-> b] : b \in Bodies}
    /\ result = <<>>
    /\ pc = "normalize"
    /\ NoRun

\* _normalize_payload(body) is called
Normalize ==
    /\ pc = "normalize" /\ result = <<>>
    /\ result' = <<_normalize_payload(sample.body)>>
    /\ UNCHANGED <<main_vars, pc, sample>>

NextNormalize == Normalize

SpecNormalize == InitNormalize /\ [][NextNormalize]_vars

\* the object has the field k and it holds a list
HasList(body, k) == k \in DOMAIN body.v /\ body.v[k].t = "list"

\* the object has error: true
HasErrorTrue(body) == "error" \in DOMAIN body.v /\ body.v["error"] = JsonTrue

\* C18: a list normalises to itself; an object with error: true to the
\* empty sequence, whatever else it carries; any other object with a list
\* under data to that list, and otherwise with a list under aaData to that
\* list.
C18_NormalizeShapes ==
    result # <<>> =>
        LET b == sample.body
        IN  /\ b.t = "list" => result[1] = b.v
            /\ (b.t = "dict" /\ HasErrorTrue(b)) => result[1] = <<>>
            /\ (b.t = "dict" /\ ~HasErrorTrue(b) /\ HasList(b, "data")) =>
                  result[1] = b.v["data"].v
            /\ (b.t = "dict" /\ ~HasErrorTrue(b) /\ ~HasList(b, "data")
                    /\ HasList(b, "aaData")) =>
                  result[1] = b.v["aaData"].v

-----------------------------------------------------------------------------
(* Properties of _page_through and main(), continued                       *)

\* the answer is 200 with a body of unexpected shape
OddAnswer(e) == e.resp = 200 /\ e.odd

\* C19: an answer 200 whose body is neither a list nor an object with a list
\* under data or aaData is the last request of its pull: no request at a
\* higher offset follows, the answer adds no record, and the pull returns
\* the records of the pages fetched before.
C19_UnexpectedShapeEndsPull ==
    /\ \A i \in DOMAIN reqs : ~OddAnswer(reqs[i])
    /\ last_pull # <<>> =>
          \A i \in DOMAIN last_pull.log :
              OddAnswer(last_pull.log[i]) =>
                  /\ i = Len(last_pull.log)
                  /\ last_pull.log[i].records = 0
                  /\ last_pull.rows = Fetched(SubSeq(last_pull.log, 1, i - 1))
                  /\ last_pull.status = 200

\* a pull fetched a page of PAGE_SIZE records and was then answered with a
\* body of unexpected shape
C19_Witness ==
    /\ last_pull # <<>>
    /\ Len(last_pull.log) = 2
    /\ last_pull.log[1].resp = 200 /\ last_pull.log[1].records = PAGE_SIZE
    /\ OddAnswer(last_pull.log[2])
    /\ Len(last_pull.rows) = PAGE_SIZE

\* the value of the parameter name of a request, <<>> when it has none
ParamOf(req, name) ==
    IF \E j \in DOMAIN req.params : req.params[j][1] = name
    THEN req.params[CHOOSE j \in DOMAIN req.params : req.params[j][1] = name][2].v
    ELSE <<>>

\* the request belongs to the pull id: the credential of its account, the
\* path, the window and the status of the pull
BelongsTo(req, id) ==
    /\ req.url[1] = ApiRoot \o accounts[id.account].token
    /\ req.url[2] = (IF id.phase = "leads" THEN "/lead/all/" ELSE "/job/all/")
    /\ ParamOf(req, "start_date") =
          (IF id.phase = "wide" THEN <<"2", "0", "2", "4", "-", "0", "1", "-", "0", "1">> ELSE <<"2", "0", "2", "5", "-", "0", "1", "-", "0", "1">>)
    /\ ParamOf(req, "status") = id.status

\* C20: the pulls are issued in the order of the accounts, within an account
\* in the order of the five statuses, the created window (from 2025-01-01)
\* before the wide window (from 2024-01-01) of the same status, the leads
\* last; a pull starts only when the one before it has ended, and every
\* request sent belongs to the pull under way; a complete run has made 11
\* pulls per account.
C20_PullOrder ==
    /\ pulls # <<>>
    /\ Len(pulls) <= Len(AllPulls)
    /\ \A k \in DOMAIN pulls : pulls[k] = AllPulls[k]
    /\ \A i \in DOMAIN reqs : BelongsTo(reqs[i].req, pulls[Len(pulls)])
    /\ last_pull # <<>> =>
          \A i \in DOMAIN last_pull.log : BelongsTo(last_pull.log[i].req, last_pull.id)
    /\ pc = "fetch" =>
          /\ pulls[Len(pulls)] = PullId(ai, si, phase)
          /\ BelongsTo(Request, pulls[Len(pulls)])
          /\ IF Len(pulls) = 1 THEN last_pull = <<>>
             ELSE last_pull.id = pulls[Len(pulls) - 1]
    /\ pc = "done" =>
          /\ last_pull.id = pulls[Len(pulls)]
          /\ \A a \in DOMAIN accounts :
                Cardinality({k \in DOMAIN pulls : pulls[k].account = a}) = 11
          /\ \A a \in DOMAIN accounts : \A s \in DOMAIN JOB_STATUSES :
                \E k \in DOMAIN pulls :
                    /\ pulls[k] = [account |-> a, phase |-> "created", status |-> JOB_STATUSES[s]]
                    /\ pulls[k + 1] = [account |-> a, phase |-> "wide", status |-> JOB_STATUSES[s]]

\* a run of two accounts is complete, with pulls that failed and pulls that
\* did not
C20_Witness ==
    /\ pc = "done"
    /\ Len(accounts) = 2
    /\ Len(pulls) = 22
    /\ stats[1].failed /\ stats[1].ok
    /\ stats[2].exhausted

\* the records of the accounts reconciled so far that passed retention, in
\* the order of the accounts
RECURSIVE KeptUpTo(_)
KeptUpTo(n) == IF n = 0 THEN <<>> ELSE KeptUpTo(n - 1) \o recon[n].kept

\* C21: every record of the global jobs collection, and of the exported jobs
\* table, has its created date or its scheduled date in the target year; the
\* collection holds the kept records of the accounts whose leads have been
\* pulled and nothing else, so a record fetched in either window that fails
\* retention is not in it.
C21_AllJobsPassRetention ==
    /\ \A i \in DOMAIN all_jobs : keep_created_or_scheduled_this_year(all_jobs[i])
    /\ all_jobs = KeptUpTo(Len(per_account_summary))
    /\ \A n \in DOMAIN recon : \A i \in DOMAIN Pulled(recon[n]) :
          ~keep_created_or_scheduled_this_year(Pulled(recon[n])[i]) =>
              /\ Pulled(recon[n])[i] \notin Range(recon[n].kept)
              /\ Pulled(recon[n])[i] \notin Range(all_jobs)
    /\ \A x \in DOMAIN exports : exports[x].jobs = all_jobs

\* the run is complete; the wide window brought a record kept for its
\* scheduled date alone and a record that fails retention, which was dropped
C21_Witness ==
    /\ pc = "done"
    /\ \E i \in DOMAIN all_jobs :
          /\ ~keep_created_this_year(all_jobs[i])
          /\ all_jobs[i]["_status_pull"] = PyStr(JOB_STATUSES[2])
    /\ \E i \in DOMAIN recon[1].wide :
          ~keep_created_or_scheduled_this_year(recon[1].wide[i])

\* a is the beginning of b
Prefix(a, b) == Len(a) <= Len(b) /\ SubSeq(b, 1, Len(a)) = a

\* t is the record r with the tags of the pull id
TaggedFor(t, r, id) ==
    /\ Untagged(t) = Untagged(r)
    /\ t["Account"] = PyStr(accounts[id.account].name)
    /\ IF id.phase = "leads"
       THEN t["_kind"] = PyStr(<<"l", "e", "a", "d">>) /\ "_status_pull" \notin DOMAIN t
       ELSE t["_kind"] = PyStr(<<"j", "o", "b">>) /\ t["_status_pull"] = PyStr(id.status)

\* new is old followed by the records rows, each with the tags of the pull id
ExtendedFor(old, new, rows, id) ==
    /\ Len(new) = Len(old) + Len(rows)
    /\ Prefix(old, new)
    /\ \A i \in DOMAIN rows : TaggedFor(new[Len(old) + i], rows[i], id)

\* the tags of the records held: which account, which kind
TagsHeld ==
    /\ \A n \in DOMAIN recon :
          /\ \A i \in DOMAIN Pulled(recon[n]) :
                LET r == Pulled(recon[n])[i]
                IN  /\ r["Account"] = PyStr(accounts[n].name)
                    /\ r["_kind"] = PyStr(<<"j", "o", "b">>)
                    /\ r["_status_pull"].v \in Range(JOB_STATUSES)
          /\ Range(recon[n].kept) \subseteq Range(Pulled(recon[n]))
    /\ \A i \in DOMAIN all_jobs :
          \E n \in DOMAIN per_account_summary :
              /\ all_jobs[i] \in Range(recon[n].kept)
              /\ all_jobs[i]["Account"] = PyStr(accounts[n].name)
    /\ \A i \in DOMAIN all_leads :
          /\ all_leads[i]["_kind"] = PyStr(<<"l", "e", "a", "d">>)
          /\ \E n \in DOMAIN per_account_summary :
                all_leads[i]["Account"] = PyStr(accounts[n].name)

\* a step of the run: the records a pull returns are taken in with the tags
\* of that pull, and the records already held stay as they are
TagsStep ==
    /\ Prefix(all_jobs, all_jobs')
    /\ Prefix(all_leads, all_leads')
    /\ last_pull' # last_pull =>
          LET id == last_pull'.id
              rows == last_pull'.rows
          IN  CASE id.phase = "created" ->
                      /\ ExtendedFor(raw_created, raw_created', rows, id)
                      /\ raw_wide' = raw_wide
                [] id.phase = "wide" ->
                      /\ ExtendedFor(raw_wide, raw_wide', rows, id)
                      /\ raw_created' = raw_created
                [] id.phase = "leads" ->
                      /\ ExtendedFor(all_leads, all_leads', rows, id)
                      /\ all_jobs' = all_jobs \o kept_rows
    /\ last_pull' = last_pull =>
          /\ raw_created' = raw_created /\ raw_wide' = raw_wide
          /\ all_jobs' = all_jobs /\ all_leads' = all_leads

\* C22: the records a job pull returns enter the account's input with Account
\* the name of the account of the pull, _kind "job" and _status_pull the
\* status of the pull, the records the leads pull returns enter the global
\* leads collection with that Account and _kind "lead"; the kept copies and
\* the global jobs collection are made of these records as tagged, and no
\* later step changes a record held.
C22_TagsSetAtIngestion == []TagsHeld /\ [][TagsStep]_vars

\* the run of two accounts is complete, with a job of the first account and
\* a lead of the second
C22_Witness ==
    /\ pc = "done"
    /\ Len(accounts) = 2
    /\ \E i \in DOMAIN all_jobs : all_jobs[i]["Account"] = PyStr(accounts[1].name)
    /\ \E i \in DOMAIN all_leads : all_leads[i]["Account"] = PyStr(accounts[2].name)

\* the sum of the Leads values of the first n summary rows
RECURSIVE LeadsUpTo(_)
LeadsUpTo(n) == IF n = 0 THEN 0 ELSE LeadsUpTo(n - 1) + per_account_summary[n].Leads

\* the last n elements of s
LastOf(s, n) == SubSeq(s, Len(s) - n + 1, Len(s))

\* C23: when the leads pull of an account has returned, the global leads
\* collection ends with the records the pull returned, every one of them, as
\* often and in the order they arrived, whatever their dates and identities,
\* and the Leads value of the account's summary row is their number; the
\* collection holds as many records as the Leads values add up to.
C23_LeadsTakenAsReturned ==
    /\ Len(all_leads) = LeadsUpTo(Len(per_account_summary))
    /\ (last_pull # <<>> /\ last_pull.id.phase = "leads") =>
          LET a == last_pull.id.account
              n == Len(last_pull.rows)
          IN  /\ Len(per_account_summary) = a
              /\ per_account_summary[a].Leads = n
              /\ Len(all_leads) >= n
              /\ UntaggedAll(LastOf(all_leads, n)) = last_pull.rows
              /\ last_pull.rows = Fetched(last_pull.log)

\* the leads pull returned two pages of PAGE_SIZE records and a short one,
\* with a record that came three times and records without any date
C23_Witness ==
    /\ last_pull # <<>> /\ last_pull.id.phase = "leads"
    /\ Len(all_leads) = 2 * PAGE_SIZE + 1
    /\ Untagged(all_leads[1]) = Untagged(all_leads[PAGE_SIZE + 1])
    /\ Untagged(all_leads[1]) = Untagged(all_leads[2 * PAGE_SIZE + 1])
    /\ ~keep_created_or_scheduled_this_year(all_leads[2])
    /\ per_account_summary[1].Leads = 2 * PAGE_SIZE + 1

\* the record at position i is the first of its identity in rows
FirstOfKey(rows, i) ==
    /\ HasIdentity(rows[i])
    /\ \A j \in 1..(i - 1) : HasIdentity(rows[j]) => KeyOf(rows[j]) # KeyOf(rows[i])

\* what reconciliation read is what the pulls of the account had gathered,
\* and what it kept and counted is every record of it that passes retention
\* and is the first of its identity
NoRollbackHeld ==
    \A n \in DOMAIN recon :
        LET rows == Pulled(recon[n])
        IN  /\ n = ai => (recon[n].created = raw_created /\ recon[n].wide = raw_wide)
            /\ \A i \in DOMAIN rows :
                  (keep_created_or_scheduled_this_year(rows[i]) /\ FirstOfKey(rows, i)) =>
                      rows[i] \in Range(recon[n].kept)
            /\ n \in DOMAIN per_account_summary =>
                  per_account_summary[n].Jobs_Total = Len(recon[n].kept)

\* a step of the run: within an account what the pulls have gathered only
\* grows, and a pull that ends on a failure adds the records of the pages it
\* had fetched
NoRollbackStep ==
    /\ ai' = ai => (Prefix(raw_created, raw_created') /\ Prefix(raw_wide, raw_wide'))
    /\ (last_pull' # last_pull /\ last_pull'.status # 200) =>
          LET id == last_pull'.id
              rows == Fetched(last_pull'.log)
          IN  /\ last_pull'.rows = rows
              /\ CASE id.phase = "created" ->
                          ExtendedFor(raw_created, raw_created', rows, id)
                   [] id.phase = "wide" ->
                          ExtendedFor(raw_wide, raw_wide', rows, id)
                   [] id.phase = "leads" ->
                          ExtendedFor(all_leads, all_leads', rows, id)

\* C24: a pull that ends on a failure leaves what the account had gathered
\* in place and adds the records of the pages it fetched before failing;
\* reconciliation reads all of it, and the records of it that pass retention,
\* one per identity, are in the account's kept set and in its Jobs_Total.
C24_NoRollback == []NoRollbackHeld /\ [][NoRollbackStep]_vars

\* a job pull of the account failed after fetching a page of PAGE_SIZE
\* records; the account is reconciled and its summary row is written, with
\* the record of that page that passes retention kept
C24_Witness ==
    /\ Len(per_account_summary) = 1
    /\ stats[1].partial
    /\ Len(Pulled(recon[1])) >= PAGE_SIZE
    /\ per_account_summary[1].Jobs_Total >= 1

\* C25: the export is made at most once, and only when every pull of every
\* account has been made and every account has its summary row; it holds
\* the three tables as they are then.  A run that an unhandled exception
\* ended has made no export, whatever the accounts completed before.
C25_ExportOnceAtEnd ==
    /\ Len(exports) <= 1
    /\ exports # <<>> =>
          /\ pc = "done"
          /\ pulls = AllPulls
          /\ Len(per_account_summary) = Len(accounts)
          /\ exports[1].jobs = all_jobs
          /\ exports[1].leads = all_leads
          /\ Range(exports[1].counts_summary) = Range(per_account_summary)
    /\ pc = "done" => Len(exports) = 1
    /\ pc \in {"fetch", "raised"} => exports = <<>>

\* the run ended by an exception in the tally of the second account, the
\* first account completed with a kept job
C25_Witness ==
    /\ pc = "raised"
    /\ ai = 2
    /\ Len(per_account_summary) = 1
    /\ per_account_summary[1].Jobs_Total = 1
    /\ all_jobs # <<>>
    /\ exports = <<>>

\* the signatures of the pages of PAGE_SIZE records among the records rows,
\* each at the offset it was fetched at
SignaturesOf(rows) ==
    {Signature((k - 1) * PAGE_SIZE, PageOf(rows, k)) : k \in 1..(Len(rows) \div PAGE_SIZE)}

\* C26: in a pull the pages taken in have pairwise different signatures, one
\* per offset, also when the pages are the same records; the signature of the
\* page asked for next is never among them, so no pull ends by the
\* repeated-signature check, and no pull ends on a page of PAGE_SIZE records:
\* a source that answers every offset with such a page is asked again and
\* again.
C26_SignatureNeverRepeats ==
    /\ pc = "fetch" =>
          /\ seen = SignaturesOf(out)
          /\ Cardinality(seen) = Len(out) \div PAGE_SIZE
          /\ offset = PAGE_SIZE * Cardinality(seen)
          /\ \A rows \in {FullPage(offset), FullPage(0)} : Signature(offset, rows) \notin seen
    /\ last_pull # <<>> =>
          /\ last_pull.stop # "repeat"
          /\ LET e == last_pull.log[Len(last_pull.log)]
             IN  ~(e.resp = 200 /\ e.records = PAGE_SIZE)

\* a pull has taken in the same PAGE_SIZE records twice and asks for more
C26_Witness ==
    /\ pc = "fetch"
    /\ offset = 2 * PAGE_SIZE
    /\ PageOf(out, 1) = PageOf(out, 2)
    /\ Cardinality(seen) = 2

\* the position of the status a job record was pulled under
StatusIndex(r) == CHOOSE s \in DOMAIN JOB_STATUSES : JOB_STATUSES[s] = r["_status_pull"].v

\* the created-window record at position i is the first of its identity there
FirstCreated(e, i) ==
    /\ HasIdentity(e.created[i])
    /\ \A j \in 1..(i - 1) :
          HasIdentity(e.created[j]) => KeyOf(e.created[j]) # KeyOf(e.created[i])

\* C27: in every reconciliation, a created-window record that is the first
\* of its identity in the created window is the copy the deduplicated mapping
\* holds under that identity, whatever wide-window records carry the identity
\* and under whichever status they were pulled, an earlier one included; if
\* it passes retention it is the kept copy, and no wide-window copy is kept.
C27_CreatedCopyWins ==
    \A n \in DOMAIN recon :
        LET e == recon[n]
        IN  \A i \in DOMAIN e.created :
                FirstCreated(e, i) =>
                    /\ \E a \in DOMAIN e.dedup :
                          /\ e.dedup[a].k = KeyOf(e.created[i])
                          /\ e.dedup[a].r = e.created[i]
                    /\ \A j \in DOMAIN e.wide :
                          (/\ HasIdentity(e.wide[j])
                           /\ KeyOf(e.wide[j]) = KeyOf(e.created[i])
                           /\ e.wide[j] # e.created[i]) =>
                              /\ \A a \in DOMAIN e.dedup : e.dedup[a].r # e.wide[j]
                              /\ e.wide[j] \notin Range(e.kept)
                    /\ keep_created_or_scheduled_this_year(e.created[i]) =>
                          e.created[i] \in Range(e.kept)

\* the identity came in the wide window of the first status and then in the
\* created window of the second, in two different copies; the copy kept is
\* the one of the created window, with the second status as _status_pull
C27_Witness ==
    \E n \in DOMAIN recon :
        \E i \in DOMAIN recon[n].created : \E j \in DOMAIN recon[n].wide :
            /\ FirstCreated(recon[n], i)
            /\ HasIdentity(recon[n].wide[j])
            /\ KeyOf(recon[n].wide[j]) = KeyOf(recon[n].created[i])
            /\ Untagged(recon[n].wide[j]) # Untagged(recon[n].created[i])
            /\ StatusIndex(recon[n].wide[j]) < StatusIndex(recon[n].created[i])
            /\ \E x \in DOMAIN recon[n].kept :
                  /\ recon[n].kept[x] = recon[n].created[i]
                  /\ recon[n].kept[x]["_status_pull"] = PyStr(JOB_STATUSES[2])

\* the records of the global jobs collection tagged with the account name
JobsTagged(name) == SelectSeq(all_jobs, LAMBDA r : r["Account"] = PyStr(name))

\* C28: among the kept records of an account no two carry the same identity
\* key; the global jobs collection holds, for each account whose summary row
\* is written, the kept records of that account, all of them, also those
\* whose identity another account has kept too, and the Jobs_Total of the
\* account is their number.
C28_DedupPerAccountOnly ==
    /\ \A n \in DOMAIN recon :
          \A i, j \in DOMAIN recon[n].kept :
              (/\ i # j
               /\ HasIdentity(recon[n].kept[i])
               /\ HasIdentity(recon[n].kept[j])) =>
                  KeyOf(recon[n].kept[i]) # KeyOf(recon[n].kept[j])
    /\ \A n \in DOMAIN per_account_summary :
          /\ JobsTagged(accounts[n].name) = recon[n].kept
          /\ per_account_summary[n].Jobs_Total = Len(JobsTagged(accounts[n].name))

\* the two accounts of a complete run were answered with the same record:
\* the global jobs collection holds it twice, once per account, and each
\* account counts it
C28_Witness ==
    /\ pc = "done"
    /\ Len(all_jobs) = 2
    /\ HasIdentity(all_jobs[1])
    /\ Untagged(all_jobs[1]) = Untagged(all_jobs[2])
    /\ all_jobs[1]["Account"] # all_jobs[2]["Account"]
    /\ per_account_summary[1].Jobs_Total = 1
    /\ per_account_summary[2].Jobs_Total = 1

\* the positions in keys of the fields of the record that are not empty
NonEmptyAt(row, keys) == {i \in DOMAIN keys : keys[i] \in DOMAIN row /\ Truthy(row[keys[i]])}

\* the field of highest priority that is not empty holds no date of the
\* target year, and a field of lower priority does
BadTop(row, keys) ==
    /\ NonEmptyAt(row, keys) # {}
    /\ LET top == CHOOSE i \in NonEmptyAt(row, keys) : \A j \in NonEmptyAt(row, keys) : i <= j
       IN  /\ ~in_this_year(parse_dt(row[keys[top]]))
           /\ \E j \in NonEmptyAt(row, keys) :
                 j > top /\ in_this_year(parse_dt(row[keys[j]]))

\* C29: when the created field of highest priority that is not empty holds
\* no date of the target year, the record is retained exactly when its
\* scheduled date is in the target year, although a created field of lower
\* priority holds a date of the target year; and likewise with created and
\* scheduled exchanged.
C29_NoFallThrough ==
    result # <<>> =>
        /\ BadTop(sample.row, CREATED_KEYS) =>
              result[1] = (sample.scheduled = THIS_YEAR)
        /\ BadTop(sample.row, SCHEDULED_KEYS) =>
              result[1] = (sample.created = THIS_YEAR)

\* a record dropped although its CreatedDate is in the target year: its
\* created_at holds a date of the year before, and it has no scheduled date
C29_Witness ==
    /\ result = <<FALSE>>
    /\ BadTop(sample.row, CREATED_KEYS)
    /\ sample.created = THIS_YEAR - 1
    /\ NonEmptyAt(sample.row, SCHEDULED_KEYS) = {}

====
